---------------------------- MODULE Spec2Model ----------------------------
(***************************************************************************)
(* Moon orbit simulation (src/webapp.py): the Streamlit session state, the *)
(* sidebar controls that change it, and the pure functions of the render  *)
(* pass.  Python floats are IEEE 754 binary64; the arithmetic of the      *)
(* source is modelled with correctly rounded operations on exact          *)
(* significand/exponent pairs, so that a result is the value CPython      *)
(* computes and not the real number the formula suggests.                 *)
(*                                                                         *)
(* Not modelled: the images, the figure, and the cosine and sine of the   *)
(* orbit angle (calculate_moon_position, create_moon_image).              *)
(***************************************************************************)
EXTENDS Integers, Sequences, FiniteSets, TLC

(***************************************************************************)
(* Natural numbers of any size: a sequence of limbs, least significant    *)
(* first, without a leading zero limb (zero is the empty sequence).       *)
(* They carry the 53-bit significands, which do not fit the integers of   *)
(* the model checker.  An intermediate result used more than once is      *)
(* passed on as a parameter.                                               *)
(***************************************************************************)
Base == 2^15

RECURSIVE BTrim(_)
BTrim(a) ==
    IF a = <<>> THEN <<>>
    ELSE IF a[Len(a)] = 0 THEN BTrim(SubSeq(a, 1, Len(a) - 1))
    ELSE a

RECURSIVE BFromInt(_)
BFromInt(n) == IF n = 0 THEN <<>> ELSE <<n % Base>> \o BFromInt(n \div Base)

RECURSIVE BToInt(_)
BToInt(a) == IF a = <<>> THEN 0 ELSE a[1] + Base * BToInt(Tail(a))

BLimb(a, i) == IF i <= Len(a) THEN a[i] ELSE 0

RECURSIVE BAddFrom(_, _, _, _)
BAddFrom(a, b, i, carry) ==
    IF i > Len(a) /\ i > Len(b)
    THEN IF carry = 0 THEN <<>> ELSE <<carry>>
    ELSE LET s == BLimb(a, i) + BLimb(b, i) + carry
         IN  <<s % Base>> \o BAddFrom(a, b, i + 1, s \div Base)

BAdd(a, b) == BAddFrom(a, b, 1, 0)

RECURSIVE BSubFrom(_, _, _, _)
BSubFrom(a, b, i, borrow) ==
    IF i > Len(a) THEN <<>>
    ELSE LET s == a[i] - BLimb(b, i) - borrow
         IN  IF s < 0 THEN <<s + Base>> \o BSubFrom(a, b, i + 1, 1)
             ELSE <<s>> \o BSubFrom(a, b, i + 1, 0)

\* a - b, for a >= b
BSub(a, b) == BTrim(BSubFrom(a, b, 1, 0))

RECURSIVE BCmpFrom(_, _, _)
BCmpFrom(a, b, i) ==
    IF i = 0 THEN 0
    ELSE IF a[i] < b[i] THEN -1
    ELSE IF a[i] > b[i] THEN 1
    ELSE BCmpFrom(a, b, i - 1)

\* -1, 0 or 1 as a is below, equal to or above b
BCmp(a, b) ==
    IF Len(a) < Len(b) THEN -1
    ELSE IF Len(a) > Len(b) THEN 1
    ELSE BCmpFrom(a, b, Len(a))

RECURSIVE BMulSmallFrom(_, _, _, _)
BMulSmallFrom(a, k, i, carry) ==
    IF i > Len(a)
    THEN IF carry = 0 THEN <<>> ELSE <<carry>>
    ELSE LET s == a[i] * k + carry
         IN  <<s % Base>> \o BMulSmallFrom(a, k, i + 1, s \div Base)

\* a * k, for 0 <= k < Base
BMulSmall(a, k) == IF k = 0 THEN <<>> ELSE BMulSmallFrom(a, k, 1, 0)

\* a * Base
BShiftLimb(a) == IF a = <<>> THEN <<>> ELSE <<0>> \o a

RECURSIVE BMul(_, _)
BMul(a, b) ==
    IF a = <<>> \/ b = <<>> THEN <<>>
    ELSE BAdd(BMulSmall(a, b[1]), BShiftLimb(BMul(a, Tail(b))))

RECURSIVE LimbBits(_)
LimbBits(x) == IF x = 0 THEN 0 ELSE 1 + LimbBits(x \div 2)

\* number of bits of a (0 for zero)
BBitLen(a) == IF a = <<>> THEN 0 ELSE 15 * (Len(a) - 1) + LimbBits(a[Len(a)])

BBit(a, i) == (BLimb(a, (i \div 15) + 1) \div 2^(i % 15)) % 2

\* a * 2^n
BShl(a, n) ==
    IF a = <<>> THEN <<>>
    ELSE [i \in 1..(n \div 15) |-> 0] \o BMulSmall(a, 2^(n % 15))

RECURSIVE BDivSmallFrom(_, _, _, _)
BDivSmallFrom(a, k, i, rem) ==
    IF i = 0 THEN <<>>
    ELSE LET cur == rem * Base + a[i]
         IN  BDivSmallFrom(a, k, i - 1, cur % k) \o <<cur \div k>>

\* floor(a / k), for 0 < k <= Base
BDivSmall(a, k) == BTrim(BDivSmallFrom(a, k, Len(a), 0))

\* floor(a / 2^n)
BShr(a, n) ==
    IF n \div 15 >= Len(a) THEN <<>>
    ELSE BDivSmall(SubSeq(a, (n \div 15) + 1, Len(a)), 2^(n % 15))

\* a mod 2^n
BLow(a, n) ==
    IF n \div 15 >= Len(a) THEN a
    ELSE BTrim(SubSeq(a, 1, n \div 15) \o <<a[(n \div 15) + 1] % 2^(n % 15)>>)

\* the largest d with b * d <= cur, counting down from an estimate d that
\* is not below it
RECURSIVE BQuotCorrect(_, _, _)
BQuotCorrect(cur, b, d) ==
    IF BCmp(BMulSmall(b, d), cur) > 0 THEN BQuotCorrect(cur, b, d - 1) ELSE d

\* floor(cur / b) for cur < b * Base and the top limb of b at least Base / 2:
\* the estimate from the top limbs is at most 2 above it
BQuotDigit(cur, b) ==
    LET n == Len(b)
        est == (BLimb(cur, n) + Base * BLimb(cur, n + 1)) \div b[n]
    IN  IF BCmp(cur, b) < 0 THEN 0
        ELSE BQuotCorrect(cur, b, IF est < Base THEN est ELSE Base - 1)

\* long division, limb i of a downwards, r the remainder so far:
\* <<the quotient's limbs i..1, the final remainder>>
RECURSIVE BDivModFrom(_, _, _, _)
RECURSIVE BDivModDigit(_, _, _, _, _)

BDivModPut(d, rest) == <<rest[1] \o <<d>>, rest[2]>>

BDivModDigit(a, b, i, cur, d) ==
    BDivModPut(d, BDivModFrom(a, b, i - 1, BSub(cur, BMulSmall(b, d))))

BDivModLimb(a, b, i, cur) == BDivModDigit(a, b, i, cur, BQuotDigit(cur, b))

BDivModFrom(a, b, i, r) ==
    IF i = 0 THEN <<(<<>>), r>>
    ELSE BDivModLimb(a, b, i, BTrim(<<a[i]>> \o r))

BDivModRun(a, b) == BDivModFrom(a, b, Len(a), <<>>)

BDivModUnscale(qr, s) == <<BTrim(qr[1]), BShr(qr[2], s)>>

BDivModScaled(a, b, s) == BDivModUnscale(BDivModRun(BShl(a, s), BShl(b, s)), s)

\* <<floor(a / b), a mod b>>, for b > 0: both are scaled to bring the top
\* limb of b to at least Base / 2, and the remainder is scaled back
BDivMod(a, b) == BDivModScaled(a, b, 15 - LimbBits(b[Len(b)]))

RECURSIVE BTrailingZeros(_, _)
BTrailingZeros(a, i) == IF BBit(a, i) = 1 THEN i ELSE BTrailingZeros(a, i + 1)

(***************************************************************************)
(* Python float: a finite binary64 value is (-1)^neg * man * 2^exp, kept  *)
(* with man odd (zero: man empty, exp 0, neg FALSE; the sign of zero does *)
(* not reach any result of this program).  The exponent range is not      *)
(* modelled: no value of the program comes near it.                       *)
(***************************************************************************)
MantBits == 53

DblShifted(neg, man, exp, z) == [neg |-> neg, man |-> BShr(man, z), exp |-> exp + z]

\* the value with its trailing zero bits moved into the exponent
Dbl(neg, man, exp) ==
    IF man = <<>> THEN [neg |-> FALSE, man |-> <<>>, exp |-> 0]
    ELSE DblShifted(neg, man, exp, BTrailingZeros(man, 0))

\* q rounded up when the dropped bits were above half (c > 0), or half with
\* q odd
RoundTo(neg, q, exp, c) ==
    Dbl(neg, IF c > 0 \/ (c = 0 /\ BBit(q, 0) = 1) THEN BAdd(q, <<1>>) ELSE q, exp)

RoundOff(neg, man, exp, sh) ==
    RoundTo(neg, BShr(man, sh), exp + sh, BCmp(BLow(man, sh), BShl(<<1>>, sh - 1)))

\* round-half-to-even of man * 2^exp to MantBits significant bits
Round(neg, man, exp) ==
    IF BBitLen(man) <= MantBits THEN Dbl(neg, man, exp)
    ELSE RoundOff(neg, man, exp, BBitLen(man) - MantBits)

FromInt(n) == Dbl(n < 0, BFromInt(IF n < 0 THEN -n ELSE n), 0)

FZero == [neg |-> FALSE, man |-> <<>>, exp |-> 0]

MinExp(x, y) == IF x.exp < y.exp THEN x.exp ELSE y.exp

\* -1, 0 or 1 as |x| is below, equal to or above |y|
FCmpAbs(x, y) ==
    IF x.man = <<>> THEN (IF y.man = <<>> THEN 0 ELSE -1)
    ELSE IF y.man = <<>> THEN 1
    ELSE IF BBitLen(x.man) + x.exp < BBitLen(y.man) + y.exp THEN -1
    ELSE IF BBitLen(x.man) + x.exp > BBitLen(y.man) + y.exp THEN 1
    ELSE BCmp(BShl(x.man, x.exp - MinExp(x, y)), BShl(y.man, y.exp - MinExp(x, y)))

\* x < y
FLess(x, y) ==
    IF x.neg /\ ~y.neg THEN TRUE
    ELSE IF ~x.neg /\ y.neg THEN FALSE
    ELSE IF x.neg THEN FCmpAbs(x, y) > 0
    ELSE FCmpAbs(x, y) < 0

\* a * 2^e signed xneg plus b * 2^e signed yneg
FAddAligned(xneg, a, yneg, b, e) ==
    Round(IF xneg = yneg \/ BCmp(a, b) >= 0 THEN xneg ELSE yneg,
          IF xneg = yneg THEN BAdd(a, b)
          ELSE IF BCmp(a, b) >= 0 THEN BSub(a, b) ELSE BSub(b, a),
          e)

\* x + y, correctly rounded
FAdd(x, y) ==
    IF x.man = <<>> THEN y
    ELSE IF y.man = <<>> THEN x
    ELSE FAddAligned(x.neg, BShl(x.man, x.exp - MinExp(x, y)),
                     y.neg, BShl(y.man, y.exp - MinExp(x, y)), MinExp(x, y))

\* x * y, correctly rounded
FMul(x, y) == Round(x.neg # y.neg, BMul(x.man, y.man), x.exp + y.exp)

\* the quotient qr[1] with a sticky bit for a remainder qr[2] that is not 0
FDivRound(neg, qr, exp) ==
    Round(neg, BAdd(BShl(qr[1], 1), IF qr[2] = <<>> THEN <<>> ELSE <<1>>), exp)

FDivScaled(x, y, k) ==
    FDivRound(x.neg # y.neg, BDivMod(BShl(x.man, k), y.man), x.exp - y.exp - k - 1)

\* the shift that gives the quotient at least MantBits + 2 bits
FDivShift(x, y) ==
    IF MantBits + 3 + BBitLen(y.man) - BBitLen(x.man) > 0
    THEN MantBits + 3 + BBitLen(y.man) - BBitLen(x.man)
    ELSE 0

\* x / y, correctly rounded (y # 0)
FDiv(x, y) == IF x.man = <<>> THEN FZero ELSE FDivScaled(x, y, FDivShift(x, y))

\* C fmod(x, y): exact, with the sign of x and |result| < |y|
Fmod(x, y) ==
    IF FCmpAbs(x, y) < 0 THEN x
    ELSE Dbl(x.neg,
             BDivMod(BShl(x.man, x.exp - MinExp(x, y)),
                     BShl(y.man, y.exp - MinExp(x, y)))[2],
             MinExp(x, y))

\* float_rem after fmod: y is added when the signs of the remainder and of
\* the divisor differ; that addition rounds
PyModFix(mod, y) ==
    IF mod.man # <<>> /\ y.neg # mod.neg THEN FAdd(mod, y) ELSE mod

\* Python's float x % y
PyMod(x, y) == PyModFix(Fmod(x, y), y)

TruncMag(x) == IF x.exp >= 0 THEN BShl(x.man, x.exp) ELSE BShr(x.man, -x.exp)

\* Python's int(x): truncation toward zero, as an integer of the model
Trunc(x) == IF x.neg THEN -BToInt(TruncMag(x)) ELSE BToInt(TruncMag(x))

(***************************************************************************)
(* Constants of the program.                                               *)
(***************************************************************************)
\* the literal 27.32: the binary64 value nearest to 2732/100
MOON_ORBIT_PERIOD == FDiv(FromInt(2732), FromInt(100))

\* the eight labels in the order of the list; each label of the source
\* starts with its moon glyph and a space, left out here (the labels stay
\* distinct without it)
MOON_PHASES ==
    << "New Moon", "Waxing Crescent", "First Quarter", "Waxing Gibbous",
       "Full Moon", "Waning Gibbous", "Last Quarter", "Waning Crescent" >>

\* the options of the select box, in the order of the dictionary
TimeZoneNames == << "GMT", "New York (EST)", "London (GMT)", "Beijing (CST)", "Sydney (AEDT)" >>

TIME_ZONES ==
    [n \in {TimeZoneNames[i] : i \in DOMAIN TimeZoneNames} |->
        CASE n = "GMT" -> 0
          [] n = "New York (EST)" -> -5
          [] n = "London (GMT)" -> 0
          [] n = "Beijing (CST)" -> 8
          [] n = "Sydney (AEDT)" -> 11]

(***************************************************************************)
(* The pure functions of the render pass.                                  *)
(***************************************************************************)
\* the index without its % 8
phase_index_NoMod(day) == Trunc(FMul(FDiv(day, MOON_ORBIT_PERIOD), FromInt(8)))

\* the index of the quarter, doubled: every other phase
phase_index_Quarters(day) ==
    2 * Trunc(PyMod(FMul(FDiv(day, MOON_ORBIT_PERIOD), FromInt(4)), FromInt(4)))

\* int((day / MOON_ORBIT_PERIOD * 8) % 8)
phase_index(day) ==
    Trunc(PyMod(FMul(FDiv(day, MOON_ORBIT_PERIOD), FromInt(8)), FromInt(8)))

\* list[i] of a Python list: i in -len..len-1, IndexError otherwise
ListLookup(list, i) ==
    IF 0 <= i /\ i < Len(list) THEN list[i + 1]
    ELSE IF -Len(list) <= i /\ i < 0 THEN list[Len(list) + i + 1]
    ELSE "IndexError"

determine_moon_phase(day) == ListLookup(MOON_PHASES, phase_index(day))

\* f"{n:02d}"
Format02d(n) == IF 0 <= n /\ n < 10 THEN "0" \o ToString(n) ELSE ToString(n)

\* the hour of a 12-hour turn
time_of_day_hour_HalfDay(position, offset) ==
    PyMod(FAdd(FMul(FDiv(PyMod(position, FromInt(360)), FromInt(360)), FromInt(12)),
               FromInt(offset)),
          FromInt(24))

\* hour = ((person_position % 360) / 360 * 24 + time_zone_offset) % 24
time_of_day_hour(position, offset) ==
    PyMod(FAdd(FMul(FDiv(PyMod(position, FromInt(360)), FromInt(360)), FromInt(24)),
               FromInt(offset)),
          FromInt(24))

\* int((hour % 1) * 60)
time_of_day_minute(hour) == Trunc(FMul(PyMod(hour, FromInt(1)), FromInt(60)))

\* f"{int(hour):02d}:{int((hour % 1) * 60):02d}"
FormatTime(hour) == Format02d(Trunc(hour)) \o ":" \o Format02d(time_of_day_minute(hour))

\* position is the angle as a float (an int angle is the float of the same
\* value: int % and true division give what the float operations give)
calculate_time_of_day(position, offset) == FormatTime(time_of_day_hour(position, offset))

(***************************************************************************)
(* State: st.session_state, the select box, what the last run displayed,  *)
(* and, for the pure functions called on their own, a call and its result.*)
(***************************************************************************)
VARIABLES
    current_day,        \* st.session_state.current_day, a float
    person_position,    \* st.session_state.person_position, an int (degrees)
    time_zone_offset,   \* st.session_state.time_zone_offset, an int (hours)
    time_zone,          \* the option selected in the select box
    pressed,            \* the widget that caused the last run of the script
    moon_phase,         \* the phase label displayed by the last run
    formatted_time,     \* the time displayed by the last run
    call,               \* a direct call of a pure function: name and arguments
    ret                 \* the value that call returned

vars == << current_day, person_position, time_zone_offset, time_zone, pressed,
           moon_phase, formatted_time, call, ret >>

NoCall == [fn |-> "none"]

\* a wrap that waits for a whole 28 days
AddDayWrap_Late(day) == IF FLess(FromInt(28), day) THEN FZero ELSE day

\* a wrap that takes the period off and keeps the rest
AddDayWrap_Subtract(day) ==
    IF FLess(MOON_ORBIT_PERIOD, day)
    THEN FAdd(day, [MOON_ORBIT_PERIOD EXCEPT !.neg = TRUE])
    ELSE day

\* if st.session_state.current_day > MOON_ORBIT_PERIOD: ... = 0.0
AddDayWrap(day) == IF FLess(MOON_ORBIT_PERIOD, day) THEN FZero ELSE day

\* the Add Day handler's effect on current_day
AddDayStep(day) == AddDayWrap(FAdd(day, FromInt(1)))

\* a spin that wraps only past 360
SpinStep_Late(position) == IF position + 30 > 360 THEN 0 ELSE position + 30

\* the Spin the Earth handler's effect on person_position
SpinStep(position) == IF position + 30 >= 360 THEN 0 ELSE position + 30

\* The values of the two pure functions at the arguments a session passes
\* them (whole days up to the orbit period, the twelve angles, the offsets
\* of TIME_ZONES), computed once; any other argument is computed on the
\* spot.  (Merging with the empty function makes each an explicit table.)
PhaseOfWholeDay ==
    [day \in {FromInt(d) : d \in 0..27} |-> determine_moon_phase(day)] @@ << >>

TimeOfSpinAngle ==
    [a \in {30 * k : k \in 0..11} \X {TIME_ZONES[n] : n \in DOMAIN TIME_ZONES} |->
        calculate_time_of_day(FromInt(a[1]), a[2])] @@ << >>

\* plot_moon_orbit: what the run displays for the state it is given
Render(day, position, offset) ==
    /\ moon_phase' = IF day \in DOMAIN PhaseOfWholeDay THEN PhaseOfWholeDay[day]
                     ELSE determine_moon_phase(day)
    /\ formatted_time' = IF <<position, offset>> \in DOMAIN TimeOfSpinAngle
                         THEN TimeOfSpinAngle[<<position, offset>>]
                         ELSE calculate_time_of_day(FromInt(position), offset)

\* the session state the handlers leave, then the render pass on it
StoreAndRender(day, position, zone) ==
    /\ current_day' = day
    /\ person_position' = position
    /\ time_zone' = zone
    /\ time_zone_offset' = TIME_ZONES[zone]
    /\ Render(day, position, TIME_ZONES[zone])
    /\ UNCHANGED << call, ret >>

\* a Reset that also puts the time zone back to the first option
RunScript_ResetAll(add, spin, zone, reset) ==
    StoreAndRender(
        IF reset THEN FZero ELSE IF add THEN AddDayStep(current_day) ELSE current_day,
        IF reset THEN 0 ELSE IF spin THEN SpinStep(person_position) ELSE person_position,
        IF reset THEN TimeZoneNames[1] ELSE zone)

\* one run of the script, top to bottom: the buttons that are down, the
\* select box's option, the Reset button, then the render pass
RunScript(add, spin, zone, reset) ==
    StoreAndRender(
        IF reset THEN FZero ELSE IF add THEN AddDayStep(current_day) ELSE current_day,
        IF reset THEN 0 ELSE IF spin THEN SpinStep(person_position) ELSE person_position,
        zone)

\* the state the first run of the script leaves
Init ==
    /\ current_day = FZero
    /\ person_position = 0
    /\ time_zone = TimeZoneNames[1]
    /\ time_zone_offset = TIME_ZONES["GMT"]
    /\ pressed = "none"
    /\ moon_phase = determine_moon_phase(FZero)
    /\ formatted_time = calculate_time_of_day(FromInt(0), TIME_ZONES["GMT"])
    /\ call = NoCall
    /\ ret = "none"

AddDay ==
    /\ pressed' = "add_day"
    /\ RunScript(TRUE, FALSE, time_zone, FALSE)

SpinTheEarth ==
    /\ pressed' = "spin"
    /\ RunScript(FALSE, TRUE, time_zone, FALSE)

SelectTimeZone ==
    \E i \in DOMAIN TimeZoneNames :
        /\ TimeZoneNames[i] # time_zone
        /\ pressed' = "time_zone"
        /\ RunScript(FALSE, FALSE, TimeZoneNames[i], FALSE)

Reset ==
    /\ pressed' = "reset"
    /\ RunScript(FALSE, FALSE, time_zone, TRUE)

\* a run no widget of the sidebar caused: only the render pass has work
Rerun ==
    /\ pressed' = "rerun"
    /\ RunScript(FALSE, FALSE, time_zone, FALSE)

Next == AddDay \/ SpinTheEarth \/ SelectTimeZone \/ Reset \/ Rerun

Spec == Init /\ [][Next]_vars

(***************************************************************************)
(* The pure functions called on their own, with arguments a session never *)
(* passes: one call, then its return.                                     *)
(***************************************************************************)
MaxDay == 60
MaxEighth == 17
MaxDayPow == 20
MaxTurns == 2

\* the float next to x on the side of zero, for x > 0
PrevFloat(x) ==
    FAdd(x, [neg |-> TRUE, man |-> <<1>>,
             exp |-> x.exp + BBitLen(x.man) - MantBits
                     - (IF x.man = <<1>> THEN 1 ELSE 0)])

\* day arguments: whole days, the eighths of the orbit period (k / 8 * P,
\* where the phase changes), hundredths of a day written as decimals
\* (6.83, 13.66, ...), and powers of two
DayInputs ==
    {FromInt(d) : d \in 0..MaxDay}
    \cup {FMul(FDiv(FromInt(k), FromInt(8)), MOON_ORBIT_PERIOD) : k \in 0..MaxEighth}
    \cup {FDiv(FromInt(683 * k), FromInt(100)) : k \in 0..MaxEighth}
    \cup {FromInt(2^k) : k \in 0..MaxDayPow}

\* angle arguments: every fifth degree of MaxTurns turns either way and one
\* more, and the float just below each multiple of 15 degrees
AngleInputs ==
    {FromInt(5 * k) : k \in (-72 * MaxTurns)..(72 * (MaxTurns + 1))}
    \cup {PrevFloat(FromInt(15 * k)) : k \in 1..(24 * MaxTurns)}

ZoneOffsets == {TIME_ZONES[n] : n \in DOMAIN TIME_ZONES}

Calls ==
    {[fn |-> "determine_moon_phase", day |-> d] : d \in DayInputs}
    \cup {[fn |-> "calculate_time_of_day", position |-> a, offset |-> z] :
            a \in AngleInputs, z \in ZoneOffsets}

InitFn ==
    /\ current_day = FZero
    /\ person_position = 0
    /\ time_zone = TimeZoneNames[1]
    /\ time_zone_offset = TIME_ZONES["GMT"]
    /\ pressed = "none"
    /\ moon_phase = determine_moon_phase(FZero)
    /\ formatted_time = calculate_time_of_day(FromInt(0), TIME_ZONES["GMT"])
    /\ call \in Calls
    /\ ret = "pending"

ReturnMoonPhase ==
    /\ ret = "pending"
    /\ call.fn = "determine_moon_phase"
    /\ ret' = determine_moon_phase(call.day)
    /\ UNCHANGED << current_day, person_position, time_zone_offset, time_zone,
                    pressed, moon_phase, formatted_time, call >>

ReturnTimeOfDay ==
    /\ ret = "pending"
    /\ call.fn = "calculate_time_of_day"
    /\ ret' = calculate_time_of_day(call.position, call.offset)
    /\ UNCHANGED << current_day, person_position, time_zone_offset, time_zone,
                    pressed, moon_phase, formatted_time, call >>

NextFn == ReturnMoonPhase \/ ReturnTimeOfDay

SpecFn == InitFn /\ [][NextFn]_vars

(***************************************************************************)
(* Properties.                                                             *)
(***************************************************************************)
RECURSIVE Spins(_, _)
Spins(n, position) == IF n = 0 THEN position ELSE Spins(n - 1, SpinStep(position))

\* the times HH:MM of a 24-hour clock
ClockTimes == {Format02d(h) \o ":" \o Format02d(m) : h \in 0..23, m \in 0..59}

QuarterPeriod == FDiv(MOON_ORBIT_PERIOD, FromInt(4))

ThreeQuarterPeriod == FMul(FDiv(FromInt(3), FromInt(4)), MOON_ORBIT_PERIOD)

\* C1: in every reachable state 0 <= current_day < MOON_ORBIT_PERIOD.
C1_DayWithinPeriod ==
    /\ ~FLess(current_day, FZero)
    /\ FLess(current_day, MOON_ORBIT_PERIOD)

\* Add Day has brought the day to 27, the largest value it takes
C1_Witness == pressed = "add_day" /\ current_day = FromInt(27)

\* C2: an Add Day run takes a whole day d to d + 1 while d + 1 does not
\* exceed 27.32, and to exactly 0.0 otherwise; so from 0 the presses give
\* 1, 2, ..., 27 and the 28th gives 0.
C2_AddDayWraparound ==
    [][pressed' = "add_day" =>
        /\ current_day = FromInt(Trunc(current_day))
        /\ current_day' = IF (Trunc(current_day) + 1) * 100 <= 2732
                          THEN FromInt(Trunc(current_day) + 1)
                          ELSE FZero]_vars

\* the 28th press: Add Day has wrapped the day to 0.0
C2_Witness == pressed = "add_day" /\ current_day = FZero /\ moon_phase = MOON_PHASES[1]

\* C3: person_position is in [0, 360) and a multiple of 30, and 12 spins
\* from it lead back to it.
C3_ObserverAngle ==
    /\ person_position \in 0..359
    /\ person_position % 30 = 0
    /\ Spins(12, person_position) = person_position

\* Spin the Earth has wrapped the angle from 330 to 0
C3_Witness == pressed = "spin" /\ person_position = 0

\* C4: calculate_time_of_day returns a time HH:MM with HH in 00..23 and MM
\* in 00..59 for every angle and every offset of TIME_ZONES; (0, 0) gives
\* "00:00", (180, 0) gives "12:00", (0, -5) gives "19:00".
C4_TimeOfDayOnClock ==
    (call.fn = "calculate_time_of_day" /\ ret # "pending") =>
        /\ ret = FormatTime(time_of_day_hour(call.position, call.offset))
        /\ ret \in ClockTimes
        /\ (call.position = FZero /\ call.offset = 0 => ret = "00:00")
        /\ (call.position = FromInt(180) /\ call.offset = 0 => ret = "12:00")
        /\ (call.position = FZero /\ call.offset = -5 => ret = "19:00")

\* C5: for every day >= 0, determine_moon_phase returns the label at index
\* int((day / P * 8) % 8), and that index is in 0..7; day 0 gives New Moon,
\* P / 4 First Quarter, 0.75 * P Last Quarter.
C5_MoonPhaseIndex ==
    (call.fn = "determine_moon_phase" /\ ret # "pending" /\ ~call.day.neg) =>
        /\ phase_index(call.day) \in 0..7
        /\ ret = MOON_PHASES[phase_index(call.day) + 1]
        /\ (call.day = FZero => ret = "New Moon")
        /\ (call.day = QuarterPeriod => ret = "First Quarter")
        /\ (call.day = ThreeQuarterPeriod => ret = "Last Quarter")

\* determine_moon_phase has returned for day = 0.75 * P
C5_Witness ==
    /\ call.fn = "determine_moon_phase"
    /\ call.day = ThreeQuarterPeriod
    /\ ret = "Last Quarter"

\* C7: with offset 0 the displayed time is 12:00 at person_position 0 and
\* 18:00 at person_position 90.
C7_NoonAtZero ==
    /\ (person_position = 0 /\ time_zone_offset = 0 => formatted_time = "12:00")
    /\ (person_position = 90 /\ time_zone_offset = 0 => formatted_time = "18:00")

\* C8: each run changes only its own part of the session state; Reset
\* zeroes the day and the angle and keeps the offset; a run that only
\* renders changes none of the three.
C8_FrameOfEachAction ==
    [][/\ pressed' = "add_day" =>
            person_position' = person_position /\ time_zone_offset' = time_zone_offset
       /\ pressed' = "spin" =>
            current_day' = current_day /\ time_zone_offset' = time_zone_offset
       /\ pressed' = "time_zone" =>
            current_day' = current_day /\ person_position' = person_position
       /\ pressed' = "reset" =>
            /\ current_day' = FZero
            /\ person_position' = 0
            /\ time_zone_offset' = time_zone_offset
       /\ pressed' = "rerun" =>
            /\ current_day' = current_day
            /\ person_position' = person_position
            /\ time_zone_offset' = time_zone_offset]_vars

\* Reset has run in a session whose time zone is Sydney's
C8_Witness ==
    /\ pressed = "reset"
    /\ time_zone_offset = 11
    /\ current_day = FZero
    /\ person_position = 0

\* C9: an Add Day run keeps the displayed phase or moves it to the next
\* one, except the wrapping run, which takes it from the last phase to the
\* first; the day 0 shows the first phase and the day 27 the last, so a
\* cycle of 28 presses shows all eight in order.
C9_PhaseProgression ==
    /\ [][pressed' = "add_day" =>
            \E i, j \in 0..7 :
                /\ moon_phase = MOON_PHASES[i + 1]
                /\ moon_phase' = MOON_PHASES[j + 1]
                /\ IF current_day' = FZero THEN i = 7 /\ j = 0
                   ELSE j = i \/ j = i + 1]_vars
    /\ [](current_day = FZero => moon_phase = MOON_PHASES[1])
    /\ [](current_day = FromInt(27) => moon_phase = MOON_PHASES[8])

\* Add Day has moved the display to the last phase
C9_Witness == pressed = "add_day" /\ moon_phase = MOON_PHASES[8]

\* C10: the displayed time is always on the hour, and a Spin the Earth run
\* moves the displayed hour on by 2 modulo 24.
C10_SpinAdvancesTwoHours ==
    /\ [](\E h \in 0..23 : formatted_time = Format02d(h) \o ":00")
    /\ [][pressed' = "spin" =>
            \E h \in 0..23 :
                /\ formatted_time = Format02d(h) \o ":00"
                /\ formatted_time' = Format02d((h + 2) % 24) \o ":00"]_vars

\* the wrapping spin in New York's zone: 17:00 at 330 degrees, 19:00 at 0
C10_Witness ==
    /\ pressed = "spin"
    /\ person_position = 0
    /\ time_zone_offset = -5
    /\ formatted_time = "19:00"

=============================================================================
